---- MODULE Spec2Model ----
(***************************************************************************)
(* A model of pkg/neobench/workload.go: the weighted script selector       *)
(* (NewScripts, Scripts.Choose), script evaluation (Script.Eval and the    *)
(* Query, Set and Sleep commands) and the clients a Workload spawns        *)
(* (Workload.NewClient, ClientWorkload.Next).                              *)
(*                                                                         *)
(* Go maps are reference values, so the model keeps them in a heap: a      *)
(* map-typed field holds an address and two fields may hold the same one.  *)
(* Go's int and uint are fixed-width; the model keeps the wrap-around at a *)
(* reduced width of IntBits bits.                                          *)
(***************************************************************************)
EXTENDS Integers, Sequences, FiniteSets, TLC

VARIABLES
    workload,  \* the Workload: Variables (a map address), Scripts, Rand
    heap,      \* address -> contents of the Go map allocated there
    client,    \* client -> its ClientWorkload: Variables, Scripts, Rand
    pc,        \* client -> where its goroutine is
    choice,    \* client -> what its last Scripts.Choose call did
    ctx,       \* client -> the ScriptContext of the evaluation in progress
    uow,       \* client -> the UnitOfWork of the evaluation in progress
    ip,        \* client -> 1-based index of the command Eval's loop is at
    err,       \* client -> the error Eval is about to return
    sleeps,    \* client -> durations passed to time.Sleep in this evaluation
    last,      \* client -> what its last completed Next() returned
    out        \* client -> the results the driver keeps, one slot each

vars == <<workload, heap, client, pc, choice, ctx, uow, ip, err, sleeps, last, out>>

--------------------------------------------------------------------------
(* Bounds of the model *)

IntBits == 5        \* width of int and uint (64 in the build)
RandBits == 2       \* width of the generator's state
NumClients == 2     \* clients the driver spawns
MaxScripts == 3     \* scripts of a selector in SpecChoose
MaxKeep == 3        \* Next() calls per client the driver of SpecTwins makes

Clients == 1..NumClients

MaxUint == 2^IntBits - 1
MaxInt == 2^(IntBits - 1) - 1
MinInt == -(2^(IntBits - 1))
RandMod == 2^RandBits

\* two's-complement wrap-around of a mathematical integer to an int
WrapInt(n) == ((n - MinInt) % (2^IntBits)) + MinInt

\* the conversion int(u) of a uint
UintToInt(u) == WrapInt(u)

--------------------------------------------------------------------------
(* Values, variable maps, errors *)

IntV(n) == <<"int64", n>>
FloatV(n) == <<"float64", n>>
StringV(n) == <<"string", n>>
NoValue == <<"none", 0>>

NilErr == [msg |-> "nil", value |-> NoValue]
ErrUndefined == [msg |-> "undefined variable", value |-> NoValue]
ErrNotNumber == [msg |-> "operand is not an integer", value |-> NoValue]
ErrSleepType(v) == [msg |-> "\\sleep must be given an integer expression, got", value |-> v]

\* An address is <<g, k>>: slot k of the arena of goroutine g (0 is the
\* goroutine that built the workload); the allocator serves each goroutine
\* from its own arena.
NilRef == <<0, 0>>
BaselineRef == <<0, 1>>

\* make(map[string]interface{}) by goroutine g: its lowest slot not in use
NewMap(h, g) ==
    LET used == {a[2] : a \in {b \in DOMAIN h : b[1] = g}}
    IN <<g, CHOOSE k \in 1..(Cardinality(used) + 1) :
                /\ k \notin used
                /\ \A j \in 1..(k - 1) : j \in used>>

\* m[k] = v on a Go map
MapPut(m, k, v) == [n \in (DOMAIN m) \cup {k} |-> IF n = k THEN v ELSE m[n]]

\* no copy: the "new" map is the source map itself
CopyMapAliases(h, src, g) == [heap |-> h, ref |-> src]

\* for k, v := range src { dst[k] = v } into a freshly made map
CopyMap(h, src, g) ==
    LET a == NewMap(h, g)
    IN [heap |-> [b \in (DOMAIN h) \cup {a} |-> IF b = a THEN h[src] ELSE h[b]],
        ref |-> a]

--------------------------------------------------------------------------
(* math/rand and sort, as the code uses them *)

\* one step of the generator
RandStep(r) == (5 * r + 3) % RandMod

\* the seeds a source tells apart: Seed reduces its argument modulo a
\* number below the range of Int63
SeedMod == RandMod - 1

\* rand.NewSource(seed): the state of a generator seeded with seed
NewSource(seed) == seed % SeedMod

\* r.Int63()
Int63(r) == [value |-> RandStep(r), rand |-> RandStep(r)]

\* r.Intn(n), which panics unless n > 0
Intn(r, n) ==
    IF n <= 0
    THEN [panic |-> TRUE, value |-> 0, rand |-> r]
    ELSE [panic |-> FALSE, value |-> RandStep(r) % n, rand |-> RandStep(r)]

\* sort.Search over the half-open range i..j of 0-based indexes
RECURSIVE Search(_, _, _, _)
Search(a, x, i, j) ==
    IF i < j
    THEN LET h == (i + j) \div 2
         IN IF ~(a[h + 1] >= x) THEN Search(a, x, h + 1, j) ELSE Search(a, x, i, h)
    ELSE i

\* sort.SearchInts(a, x)
SearchInts(a, x) == Search(a, x, 0, Len(a))

--------------------------------------------------------------------------
(* The weighted script selector *)

\* cumulativeWeight after the first i scripts
RECURSIVE CumulativeWeight(_, _)
CumulativeWeight(scripts, i) ==
    IF i = 0
    THEN 0
    ELSE WrapInt(CumulativeWeight(scripts, i - 1) + UintToInt(scripts[i].Weight))

NewScripts(scripts) ==
    [Scripts |-> scripts,
     WeightedLookup |-> [i \in 1..Len(scripts) |-> CumulativeWeight(scripts, i)],
     TotalWeight |-> CumulativeWeight(scripts, Len(scripts))]

\* steps 1 and 2 of Choose once the point is drawn: the 0-based index
ChooseAt(s, point) == SearchInts(s.WeightedLookup, point)

\* Choose without the single-script case
ChooseAlwaysDraws(s, r) ==
    LET d == Intn(r, s.TotalWeight)
        point == d.value + 1
        index == ChooseAt(s, point)
    IN IF d.panic \/ index >= Len(s.Scripts)
       THEN [panic |-> TRUE, index |-> 0, point |-> 0, rand |-> d.rand]
       ELSE [panic |-> FALSE, index |-> index, point |-> point, rand |-> d.rand]

\* Scripts.Choose: the 0-based index of the script returned, the point
\* drawn (0 when none was) and the state the generator is left in
Choose(s, r) ==
    IF Len(s.Scripts) = 1
    THEN [panic |-> FALSE, index |-> 0, point |-> 0, rand |-> r]
    ELSE LET d == Intn(r, s.TotalWeight)
             point == d.value + 1
             index == ChooseAt(s, point)
         IN IF d.panic \/ index >= Len(s.Scripts)
            THEN [panic |-> TRUE, index |-> 0, point |-> 0, rand |-> d.rand]
            ELSE [panic |-> FALSE, index |-> index, point |-> point, rand |-> d.rand]

--------------------------------------------------------------------------
(* Expressions: the evaluator the Set and Sleep commands call *)

Names == {"x", "y", "z"}

ConstExpr(v) == [op |-> "const", name |-> "", value |-> v]
VarExpr(n) == [op |-> "var", name |-> n, value |-> NoValue]
AddExpr(n, k) == [op |-> "add", name |-> n, value |-> IntV(k)]
RandomExpr(k) == [op |-> "random", name |-> "", value |-> IntV(k)]

\* Expression.Eval(ctx): a value or an error, and the state ctx.Rand is left in
ExprEval(e, scope, r) ==
    CASE e.op = "const" -> [value |-> e.value, err |-> NilErr, rand |-> r]
      [] e.op = "var" ->
            IF e.name \in DOMAIN scope
            THEN [value |-> scope[e.name], err |-> NilErr, rand |-> r]
            ELSE [value |-> NoValue, err |-> ErrUndefined, rand |-> r]
      [] e.op = "add" ->
            IF e.name \notin DOMAIN scope
            THEN [value |-> NoValue, err |-> ErrUndefined, rand |-> r]
            ELSE IF scope[e.name][1] # "int64"
            THEN [value |-> NoValue, err |-> ErrNotNumber, rand |-> r]
            ELSE [value |-> IntV(WrapInt(scope[e.name][2] + e.value[2])),
                  err |-> NilErr, rand |-> r]
      [] e.op = "random" ->
            LET d == Intn(r, e.value[2])
            IN [value |-> IntV(d.value), err |-> NilErr, rand |-> d.rand]

--------------------------------------------------------------------------
(* Commands *)

QueryCommand(q) ==
    [type |-> "query", Query |-> q, VarName |-> "", Expression |-> ConstExpr(NoValue),
     Unit |-> 0]
SetCommand(n, e) ==
    [type |-> "set", Query |-> "", VarName |-> n, Expression |-> e, Unit |-> 0]
SleepCommand(e, u) ==
    [type |-> "sleep", Query |-> "", VarName |-> "", Expression |-> e, Unit |-> u]

\* the statement keeps the scope itself as its parameters
QueryExecuteSharesScope(c, h, cx, uw) ==
    [heap |-> h,
     uow |-> [uw EXCEPT !.Statements =
                  Append(@, [Query |-> c.Query, Params |-> cx.Vars])],
     err |-> NilErr]

\* the new statement is put in front of the ones recorded before it
QueryExecutePrepends(c, h, cx, uw) ==
    LET params == CopyMap(h, cx.Vars, cx.G)
    IN [heap |-> params.heap,
        uow |-> [uw EXCEPT !.Statements =
                     <<[Query |-> c.Query, Params |-> params.ref]>> \o @],
        err |-> NilErr]

\* QueryCommand.Execute
QueryExecute(c, h, cx, uw) ==
    LET params == CopyMap(h, cx.Vars, cx.G)
    IN [heap |-> params.heap,
        uow |-> [uw EXCEPT !.Statements =
                     Append(@, [Query |-> c.Query, Params |-> params.ref])],
        err |-> NilErr]

\* the binding replaces the scope instead of being added to it
SetExecuteReplacesScope(c, h, cx, r) ==
    LET v == ExprEval(c.Expression, h[cx.Vars], r)
    IN IF v.err # NilErr
       THEN [heap |-> h, err |-> v.err, rand |-> v.rand]
       ELSE [heap |-> [h EXCEPT ![cx.Vars] = (c.VarName :> v.value)],
             err |-> NilErr, rand |-> v.rand]

\* the variable is bound before the error is looked at
SetExecuteBindsOnError(c, h, cx, r) ==
    LET v == ExprEval(c.Expression, h[cx.Vars], r)
    IN [heap |-> [h EXCEPT ![cx.Vars] = MapPut(@, c.VarName, v.value)],
        err |-> v.err, rand |-> v.rand]

\* SetCommand.Execute
SetExecute(c, h, cx, r) ==
    LET v == ExprEval(c.Expression, h[cx.Vars], r)
    IN IF v.err # NilErr
       THEN [heap |-> h, err |-> v.err, rand |-> v.rand]
       ELSE [heap |-> [h EXCEPT ![cx.Vars] = MapPut(@, c.VarName, v.value)],
             err |-> NilErr, rand |-> v.rand]

\* the type assertion's ok is not looked at
SleepExecuteUnchecked(c, h, cx, r) ==
    LET v == ExprEval(c.Expression, h[cx.Vars], r)
    IN IF v.err # NilErr
       THEN [sleep |-> FALSE, duration |-> 0, err |-> v.err, rand |-> v.rand]
       ELSE [sleep |-> TRUE,
             duration |-> IF v.value[1] = "int64" THEN WrapInt(v.value[2] * c.Unit) ELSE 0,
             err |-> NilErr, rand |-> v.rand]

\* SleepCommand.Execute up to its call of time.Sleep
SleepExecute(c, h, cx, r) ==
    LET v == ExprEval(c.Expression, h[cx.Vars], r)
    IN IF v.err # NilErr
       THEN [sleep |-> FALSE, duration |-> 0, err |-> v.err, rand |-> v.rand]
       ELSE IF v.value[1] # "int64"
       THEN [sleep |-> FALSE, duration |-> 0, err |-> ErrSleepType(v.value),
             rand |-> v.rand]
       ELSE [sleep |-> TRUE, duration |-> WrapInt(v.value[2] * c.Unit),
             err |-> NilErr, rand |-> v.rand]

--------------------------------------------------------------------------
(* Scripts and workloads the clients are driven with *)

Script(ro, w, cmds) == [Readonly |-> ro, Weight |-> w, Commands |-> cmds]

\* rebinds a baseline variable between two queries, then adds a variable
SetScript(w) ==
    Script(FALSE, w, <<QueryCommand("qa"), SetCommand("x", AddExpr("x", 1)), QueryCommand("qb"),
                       SetCommand("y", ConstExpr(StringV(7))), QueryCommand("qc")>>)

\* sleeps for the baseline value of x between two queries
SleepScript(w) ==
    Script(TRUE, w, <<QueryCommand("qd"), SleepCommand(VarExpr("x"), 2), QueryCommand("qe")>>)

\* its third command fails in the evaluator
FailScript(w) ==
    Script(TRUE, w, <<QueryCommand("qf"), QueryCommand("qg"), SetCommand("y", VarExpr("z")),
                      QueryCommand("qh")>>)

\* binds a float, then sleeps on it
FloatSleepScript(w) ==
    Script(FALSE, w, <<SetCommand("z", ConstExpr(FloatV(3))),
                       SleepCommand(VarExpr("z"), 1), QueryCommand("qi")>>)

\* sleeps on an undefined variable
BadSleepScript(w) ==
    Script(FALSE, w, <<QueryCommand("qj"), SleepCommand(VarExpr("y"), 1),
                       SetCommand("x", ConstExpr(IntV(0)))>>)

\* rebinds x, sleeps for x and queries
NapScript(w) ==
    Script(FALSE, w, <<SetCommand("x", AddExpr("x", 1)),
                       SleepCommand(VarExpr("x"), 1), QueryCommand("ql")>>)

\* draws from the client's generator
RandomScript(w) ==
    Script(FALSE, w, <<SetCommand("y", RandomExpr(2)), QueryCommand("qk")>>)

EmptyScript(w) == Script(TRUE, w, <<>>)

ScriptSets ==
    { <<SetScript(1), SleepScript(2)>>,
      <<FailScript(0)>>,
      <<FloatSleepScript(1), BadSleepScript(1), EmptyScript(0)>>,
      <<RandomScript(2)>>,
      <<SetScript(0), FailScript(0)>>,
      <<>> }

\* the variables set on the command line
BaselineVars == ("x" :> IntV(1))

\* the master generator's seed
Seeds == {0, 1}

--------------------------------------------------------------------------
(* State *)

NoScripts == NewScripts(<<>>)
NoClient == [Variables |-> NilRef, Scripts |-> NoScripts, Rand |-> 0]
NoChoice == [panic |-> FALSE, index |-> 0, point |-> 0, rand |-> 0]
NoCtx == [Vars |-> NilRef, G |-> 0]
NoUow == [Readonly |-> FALSE, Statements |-> <<>>]
NoResult == [returned |-> FALSE, uow |-> NoUow, err |-> NilErr]

\* a slot of the driver's buffer that holds no result yet
NoEntry ==
    [filled |-> FALSE, script |-> 0, readonly |-> FALSE, statements |-> <<>>,
     err |-> NilErr]

\* what a Next() call returned as the driver reads it: the index of the
\* script that was evaluated, and the UnitOfWork with the contents of its
\* statements' parameter maps, and the error
Returned(h, ch, uw, e) ==
    [filled |-> TRUE, script |-> ch.index, readonly |-> uw.Readonly,
     statements |-> [j \in 1..Len(uw.Statements) |->
                        [Query |-> uw.Statements[j].Query,
                         Params |-> h[uw.Statements[j].Params]]],
     err |-> e]

FreeSlots(buf) == {j \in 1..Len(buf) : ~buf[j].filled}

\* the driver puts a result into the first free slot, if there is one
Keep(buf, e) ==
    IF FreeSlots(buf) = {}
    THEN buf
    ELSE [buf EXCEPT ![CHOOSE j \in FreeSlots(buf) : \A k \in FreeSlots(buf) : j <= k] = e]

\* the maps some field still refers to
Live(wl, cl, cx, uw, la) ==
    ({wl.Variables}
       \cup {cl[c].Variables : c \in Clients}
       \cup {cx[c].Vars : c \in Clients}
       \cup UNION {{uw[c].Statements[j].Params : j \in 1..Len(uw[c].Statements)}
                    : c \in Clients}
       \cup UNION {{la[c].uow.Statements[j].Params : j \in 1..Len(la[c].uow.Statements)}
                    : c \in Clients})
    \ {NilRef}

\* the heap once the collector has freed the maps nothing refers to
Collect(h, live) == [a \in (DOMAIN h) \cap live |-> h[a]]

\* the script a client is evaluating
ScriptOf(c) == client[c].Scripts.Scripts[choice[c].index + 1]

CommandAt(c) == ScriptOf(c).Commands[ip[c]]

InitWorkload(scripts, seed) ==
    /\ workload = [Variables |-> BaselineRef, Scripts |-> NewScripts(scripts), Rand |-> seed]
    /\ heap = (BaselineRef :> BaselineVars)
    /\ client = [c \in Clients |-> NoClient]
    /\ pc = [c \in Clients |-> "none"]
    /\ choice = [c \in Clients |-> NoChoice]
    /\ ctx = [c \in Clients |-> NoCtx]
    /\ uow = [c \in Clients |-> NoUow]
    /\ ip = [c \in Clients |-> 0]
    /\ err = [c \in Clients |-> NilErr]
    /\ sleeps = [c \in Clients |-> <<>>]
    /\ last = [c \in Clients |-> NoResult]
    /\ out = [c \in Clients |-> <<>>]

Init == \E scripts \in ScriptSets, seed \in Seeds : InitWorkload(scripts, seed)

--------------------------------------------------------------------------
(* Workload.NewClient *)

\* the master generator is drawn from twice for one client
NewClientOfDrawsTwice(wl) ==
    LET seed == Int63(Int63(wl.Rand).rand)
    IN [client |-> [Variables |-> wl.Variables, Scripts |-> wl.Scripts,
                    Rand |-> NewSource(seed.value)],
        master |-> seed.rand]

\* the ClientWorkload returned, and the master generator after the draw
NewClientOf(wl) ==
    LET seed == Int63(wl.Rand)
    IN [client |-> [Variables |-> wl.Variables, Scripts |-> wl.Scripts,
                    Rand |-> NewSource(seed.value)],
        master |-> seed.rand]

\* the driver's k-th call of NewClient makes client k
NewClient(c) ==
    /\ pc[c] = "none"
    /\ \A d \in 1..(c - 1) : pc[d] # "none"
    /\ LET n == NewClientOf(workload)
       IN /\ client' = [client EXCEPT ![c] = n.client]
          /\ workload' = [workload EXCEPT !.Rand = n.master]
    /\ pc' = [pc EXCEPT ![c] = "idle"]
    /\ heap' = Collect(heap, Live(workload', client', ctx, uow, last))
    /\ UNCHANGED <<choice, ctx, uow, ip, err, sleeps, last, out>>

--------------------------------------------------------------------------
(* ClientWorkload.Next and Script.Eval *)

\* every goroutine but the ones inside time.Sleep is blocked as well
RunnableWhenNobodySleeps(c) ==
    /\ pc[c] \in {"idle", "eval", "done"}
    /\ \A d \in Clients : pc[d] # "sleeping"

\* the scheduler runs client c's goroutine: it exists, has not panicked and
\* is not itself inside time.Sleep
Runnable(c) == pc[c] \in {"idle", "eval", "done"}

\* Next hands the client's own map to the evaluation
NextVarsShared(h, cl, g) == [heap |-> h, ref |-> cl.Variables]

\* the vars map Next hands to the evaluation
NextVars(h, cl, g) == CopyMap(h, cl.Variables, g)

\* the UnitOfWork starts from the zero value, not from the script's flag
EvalInitZero(script) == [Readonly |-> FALSE, Statements |-> <<>>]

\* the UnitOfWork Eval starts from
EvalInit(script) == [Readonly |-> script.Readonly, Statements |-> <<>>]

\* the loop goes on after a failed command
EvalLoopKeepsGoing(e, i, n) ==
    IF i + 1 > n
    THEN [pc |-> "done", ip |-> i + 1, err |-> e]
    ELSE [pc |-> "eval", ip |-> i + 1, err |-> e]

\* Eval's loop once command i of n has returned e: where it goes next
EvalLoop(e, i, n) ==
    IF e # NilErr
    THEN [pc |-> "done", ip |-> i, err |-> e]
    ELSE IF i + 1 > n
    THEN [pc |-> "done", ip |-> i + 1, err |-> NilErr]
    ELSE [pc |-> "eval", ip |-> i + 1, err |-> NilErr]

\* choosing uses up one unit of the selector's total weight
AfterChooseUsesWeight(cl, ch) ==
    [cl EXCEPT !.Rand = ch.rand, !.Scripts.TotalWeight = WrapInt(@ - 1)]

\* the ClientWorkload once s.Scripts.Choose(s.Rand) has returned: the
\* generator is where the draw left it
AfterChoose(cl, ch) == [cl EXCEPT !.Rand = ch.rand]

\* Next up to the first command: copy the variables, choose, enter Eval
NextBegin(c) ==
    /\ pc[c] = "idle"
    /\ Runnable(c)
    /\ LET v == NextVars(heap, client[c], c)
           ch == Choose(client[c].Scripts, client[c].Rand)
           script == client[c].Scripts.Scripts[ch.index + 1]
       IN /\ choice' = [choice EXCEPT ![c] = ch]
          /\ client' = [client EXCEPT ![c] = AfterChoose(client[c], ch)]
          /\ sleeps' = [sleeps EXCEPT ![c] = <<>>]
          /\ IF ch.panic
             THEN /\ pc' = [pc EXCEPT ![c] = "panicked"]
                  /\ UNCHANGED <<ctx, uow, ip, err>>
             ELSE LET go == EvalLoop(NilErr, 0, Len(script.Commands))
                  IN /\ pc' = [pc EXCEPT ![c] = go.pc]
                     /\ ip' = [ip EXCEPT ![c] = go.ip]
                     /\ err' = [err EXCEPT ![c] = go.err]
                     /\ ctx' = [ctx EXCEPT ![c] = [Vars |-> v.ref, G |-> c]]
                     /\ uow' = [uow EXCEPT ![c] = EvalInit(script)]
          /\ heap' = Collect(v.heap, Live(workload, client', ctx', uow', last))
    /\ UNCHANGED <<workload, last, out>>

\* one turn of Eval's loop on a Query command
ExecQuery(c) ==
    /\ pc[c] = "eval"
    /\ Runnable(c)
    /\ CommandAt(c).type = "query"
    /\ LET res == QueryExecute(CommandAt(c), heap, ctx[c], uow[c])
           go == EvalLoop(res.err, ip[c], Len(ScriptOf(c).Commands))
       IN /\ uow' = [uow EXCEPT ![c] = res.uow]
          /\ pc' = [pc EXCEPT ![c] = go.pc]
          /\ ip' = [ip EXCEPT ![c] = go.ip]
          /\ err' = [err EXCEPT ![c] = go.err]
          /\ heap' = Collect(res.heap, Live(workload, client, ctx, uow', last))
    /\ UNCHANGED <<workload, client, choice, ctx, sleeps, last, out>>

\* one turn of Eval's loop on a Set command
ExecSet(c) ==
    /\ pc[c] = "eval"
    /\ Runnable(c)
    /\ CommandAt(c).type = "set"
    /\ LET res == SetExecute(CommandAt(c), heap, ctx[c], client[c].Rand)
           go == EvalLoop(res.err, ip[c], Len(ScriptOf(c).Commands))
       IN /\ client' = [client EXCEPT ![c].Rand = res.rand]
          /\ pc' = [pc EXCEPT ![c] = go.pc]
          /\ ip' = [ip EXCEPT ![c] = go.ip]
          /\ err' = [err EXCEPT ![c] = go.err]
          /\ heap' = Collect(res.heap, Live(workload, client', ctx, uow, last))
    /\ UNCHANGED <<workload, choice, ctx, uow, sleeps, last, out>>

\* a Sleep command up to time.Sleep, where the goroutine is suspended
ExecSleep(c) ==
    /\ pc[c] = "eval"
    /\ Runnable(c)
    /\ CommandAt(c).type = "sleep"
    /\ LET res == SleepExecute(CommandAt(c), heap, ctx[c], client[c].Rand)
           go == EvalLoop(res.err, ip[c], Len(ScriptOf(c).Commands))
       IN /\ client' = [client EXCEPT ![c].Rand = res.rand]
          /\ IF res.sleep
             THEN /\ pc' = [pc EXCEPT ![c] = "sleeping"]
                  /\ sleeps' = [sleeps EXCEPT ![c] = Append(@, res.duration)]
                  /\ UNCHANGED <<ip, err>>
             ELSE /\ pc' = [pc EXCEPT ![c] = go.pc]
                  /\ ip' = [ip EXCEPT ![c] = go.ip]
                  /\ err' = [err EXCEPT ![c] = go.err]
                  /\ UNCHANGED sleeps
    /\ UNCHANGED <<workload, heap, choice, ctx, uow, last, out>>

\* time.Sleep returns, and the Sleep command returns nil
WakeUp(c) ==
    /\ pc[c] = "sleeping"
    /\ LET go == EvalLoop(NilErr, ip[c], Len(ScriptOf(c).Commands))
       IN /\ pc' = [pc EXCEPT ![c] = go.pc]
          /\ ip' = [ip EXCEPT ![c] = go.ip]
          /\ err' = [err EXCEPT ![c] = go.err]
    /\ UNCHANGED <<workload, heap, client, choice, ctx, uow, sleeps, last, out>>

\* Eval returns (uow, err) and Next returns it to the driver
NextReturn(c) ==
    /\ pc[c] = "done"
    /\ Runnable(c)
    /\ last' = [last EXCEPT ![c] = [returned |-> TRUE, uow |-> uow[c], err |-> err[c]]]
    /\ pc' = [pc EXCEPT ![c] = "idle"]
    /\ ctx' = [ctx EXCEPT ![c] = NoCtx]
    /\ uow' = [uow EXCEPT ![c] = NoUow]
    /\ ip' = [ip EXCEPT ![c] = 0]
    /\ err' = [err EXCEPT ![c] = NilErr]
    /\ heap' = Collect(heap, Live(workload, client, ctx', uow', last'))
    /\ out' = [out EXCEPT ![c] = Keep(@, Returned(heap, choice[c], uow[c], err[c]))]
    /\ UNCHANGED <<workload, client, choice, sleeps>>

Step(c) ==
    \/ NextBegin(c)
    \/ ExecQuery(c)
    \/ ExecSet(c)
    \/ ExecSleep(c)
    \/ WakeUp(c)
    \/ NextReturn(c)

Next ==
    \E c \in Clients :
        \/ NewClient(c)
        \/ NextBegin(c)
        \/ ExecQuery(c)
        \/ ExecSet(c)
        \/ ExecSleep(c)
        \/ WakeUp(c)
        \/ NextReturn(c)

Spec == Init /\ [][Next]_vars

\* clients that all run one script, which binds, queries and sleeps
InitNap == InitWorkload(<<NapScript(1)>>, 0)

\* every client's goroutine is scheduled again and again, its driver loop
\* calls Next() again, and a sleep ends
FairSpec == InitNap /\ [][Next]_vars /\ \A c \in Clients : WF_vars(Step(c))

--------------------------------------------------------------------------
(* The selector over a wide range of weights: one client, every selector  *)
(* of up to MaxScripts scripts whose weights are drawn from Weights       *)

\* small weights, and weights at and beyond the largest int
Weights == {0, 1, 2, 3, 5, MaxInt + 1, MaxUint - 3, MaxUint}

\* the script every weight comes with
WeightedScript(w) ==
    Script(FALSE, w, <<SetCommand("y", RandomExpr(2)), QueryCommand("qw"),
                       SleepCommand(VarExpr("y"), 1)>>)

WeightLists == UNION {[1..n -> Weights] : n \in 0..MaxScripts}

InitChoose ==
    \E ws \in WeightLists, seed \in 0..(RandMod - 1) :
        InitWorkload([i \in 1..Len(ws) |-> WeightedScript(ws[i])], seed)

NextChoose ==
    \/ NewClient(1)
    \/ NextBegin(1)
    \/ ExecQuery(1)
    \/ ExecSet(1)
    \/ ExecSleep(1)
    \/ WakeUp(1)
    \/ NextReturn(1)

SpecChoose == InitChoose /\ [][NextChoose]_vars

--------------------------------------------------------------------------
(* What the claims are stated with *)

\* client c is inside a Next() whose Choose call has returned a script
Chosen(c) == pc[c] \in {"eval", "sleeping", "done"}

\* client c has called Choose in its current or last Next()
CalledChoose(c) == Chosen(c) \/ pc[c] = "panicked" \/ last[c].returned

WeightOf(s, i) == s.Scripts[i + 1].Weight

\* the smallest 0-based index whose lookup entry reaches the point
FirstReaching(s, point) ==
    LET reach == {i \in 0..(Len(s.Scripts) - 1) : s.WeightedLookup[i + 1] >= point}
    IN CHOOSE i \in reach : \A j \in reach : i <= j

\* the draw points at which the selector returns script i
PointsOf(s, i) == {p \in 1..s.TotalWeight : ChooseAt(s, p) = i}

\* C1: with n >= 2 scripts and total weight T > 0, every point of 1..T
\* selects the script at the smallest index whose lookup entry is >= the
\* point, an index of 0..n-1; a client's Choose draws its point in 1..T and
\* returns that script; weights [2,3,3] send 1 and 2 to script 0, 3 to
\* script 1 and 8 to script 2.
C1_ChooseFirstReaching ==
    LET s == workload.Scripts
        n == Len(s.Scripts)
    IN (n >= 2 /\ s.TotalWeight > 0) =>
          /\ \A point \in 1..s.TotalWeight :
                /\ ChooseAt(s, point) \in 0..(n - 1)
                /\ ChooseAt(s, point) = FirstReaching(s, point)
          /\ \A c \in Clients : Chosen(c) =>
                /\ choice[c].point \in 1..s.TotalWeight
                /\ choice[c].index = FirstReaching(s, choice[c].point)
          /\ [i \in 1..n |-> s.Scripts[i].Weight] = <<2, 3, 3>> =>
                /\ s.WeightedLookup = <<2, 5, 8>>
                /\ ChooseAt(s, 1) = 0 /\ ChooseAt(s, 2) = 0
                /\ ChooseAt(s, 3) = 1 /\ ChooseAt(s, 8) = 2

\* C2: with n >= 2 scripts and total weight T > 0, script i is returned at
\* exactly weight[i] of the draw points 1..T.
C2_PointsEqualWeight ==
    LET s == workload.Scripts
        n == Len(s.Scripts)
    IN (n >= 2 /\ s.TotalWeight > 0) =>
          \A i \in 0..(n - 1) : Cardinality(PointsOf(s, i)) = WeightOf(s, i)

\* no cumulative sum of the weights wrapped: every lookup entry is the
\* entry before it plus the script's weight
NoWrap ==
    LET s == workload.Scripts
    IN \A i \in 1..Len(s.Scripts) :
          s.WeightedLookup[i] =
             (IF i = 1 THEN 0 ELSE s.WeightedLookup[i - 1]) + s.Scripts[i].Weight

\* the statement of C1 on the selectors whose cumulative sums do not wrap
ChooseFirstReachingWithoutWrap == NoWrap => C1_ChooseFirstReaching

\* the statement of C2 on the selectors whose cumulative sums do not wrap
PointsEqualWeightWithoutWrap == NoWrap => C2_PointsEqualWeight

\* C3: a Next() on a selector of exactly one script enters the evaluation
\* of that script and leaves the client's generator as it was.
C3_SingleScriptNoDraw ==
    [][\A c \in Clients :
          (pc[c] = "idle" /\ pc'[c] # "idle" /\ Len(client[c].Scripts.Scripts) = 1) =>
             /\ client'[c].Rand = client[c].Rand
             /\ pc'[c] \in {"eval", "done"}
             /\ choice'[c].index = 0
             /\ uow'[c].Readonly = client[c].Scripts.Scripts[1].Readonly]_vars

\* a client is evaluating the only script of its selector, of weight 0
C3_Witness ==
    \E c \in Clients :
        /\ pc[c] = "eval"
        /\ Len(client[c].Scripts.Scripts) = 1
        /\ WeightOf(client[c].Scripts, 0) = 0

\* C4: no client ever calls Choose on a selector whose total weight is 0.
C4_ZeroTotalRejected ==
    \A c \in Clients : CalledChoose(c) => client[c].Scripts.TotalWeight # 0

--------------------------------------------------------------------------
(* Evaluation: C5 to C8 *)

Commands(c) == ScriptOf(c).Commands

\* the commands of kind t among the first k commands of client c's script
Among(c, k, t) == {i \in 1..k : Commands(c)[i].type = t}

\* the query strings of the Query commands among the first k commands
RECURSIVE QueriesBefore(_, _)
QueriesBefore(cmds, k) ==
    IF k = 0
    THEN <<>>
    ELSE IF cmds[k].type = "query"
    THEN Append(QueriesBefore(cmds, k - 1), cmds[k].Query)
    ELSE QueriesBefore(cmds, k - 1)

QueriesOf(u) == [j \in 1..Len(u.Statements) |-> u.Statements[j].Query]

\* the names the Set commands among the first k commands bind
SetNames(c, k) == {Commands(c)[i].VarName : i \in Among(c, k, "set")}

\* map m agrees with the baseline on every name outside names
BaselineOutside(m, names) ==
    \A n \in Names \ names :
        /\ n \in DOMAIN m <=> n \in DOMAIN BaselineVars
        /\ n \in DOMAIN m => m[n] = BaselineVars[n]

\* an evaluation that has failed stands at its failing command k: a Set or
\* a Sleep; what it holds is what commands 1..k-1 made
HaltedAtFirstFailure(c) ==
    LET k == ip[c]
    IN /\ k \in 1..Len(Commands(c))
       /\ Commands(c)[k].type \in {"set", "sleep"}
       /\ QueriesOf(uow[c]) = QueriesBefore(Commands(c), k - 1)
       /\ Len(sleeps[c]) = Cardinality(Among(c, k - 1, "sleep"))
       /\ BaselineOutside(heap[ctx[c].Vars], SetNames(c, k - 1))

\* C5: Eval halts at the first command that fails: an error is pending only
\* in an evaluation that has stopped, at the failing command k, with the
\* statements of the Query commands before k, the sleeps of the Sleep
\* commands before k and the bindings of the Set commands before k; and the
\* only thing that evaluation still does is return its UnitOfWork with the
\* error.
C5_EvalHaltsAtFirstFailure ==
    /\ [](\A c \in Clients : err[c] # NilErr =>
              (pc[c] = "done" /\ HaltedAtFirstFailure(c)))
    /\ [][\A c \in Clients : (pc[c] = "done" /\ err[c] # NilErr) =>
              \/ /\ pc'[c] = "done"
                 /\ uow'[c] = uow[c] /\ err'[c] = err[c] /\ ip'[c] = ip[c]
                 /\ sleeps'[c] = sleeps[c]
                 /\ heap'[ctx[c].Vars] = heap[ctx[c].Vars]
              \/ /\ pc'[c] = "idle"
                 /\ last'[c] = [returned |-> TRUE, uow |-> uow[c], err |-> err[c]]
                 /\ sleeps'[c] = sleeps[c]]_vars

\* the third command of a script has failed after two queries
C5_Witness ==
    \E c \in Clients :
        /\ pc[c] = "done" /\ err[c] # NilErr /\ ip[c] = 3
        /\ Len(uow[c].Statements) = 2
        /\ Len(Commands(c)) > 3

\* client c is in Eval and has not executed a command yet
AtStart(c) == Chosen(c) /\ ip[c] = 1 /\ sleeps[c] = <<>> /\ err[c] = NilErr /\ pc[c] = "eval"

\* C6: at the start of every evaluation of a client the scope equals the
\* client's baseline variables, and the client's baseline mapping is what
\* it was when the client was made, whatever Next() calls came before.
C6_NextStartsFromBaseline ==
    \A c \in Clients : pc[c] # "none" =>
        /\ heap[client[c].Variables] = BaselineVars
        /\ AtStart(c) => heap[ctx[c].Vars] = BaselineVars

\* a client starts an evaluation after one whose Set commands took effect
C6_Witness ==
    \E c \in Clients :
        /\ AtStart(c)
        /\ last[c].returned
        /\ \E j \in 1..Len(last[c].uow.Statements) :
              heap[last[c].uow.Statements[j].Params] # BaselineVars

\* the maps client c's evaluation and last result refer to
MapsOf(c) ==
    ({ctx[c].Vars}
       \cup {uow[c].Statements[j].Params : j \in 1..Len(uow[c].Statements)}
       \cup {last[c].uow.Statements[j].Params : j \in 1..Len(last[c].uow.Statements)})
    \ {NilRef}

\* C7: under every interleaving, clients share no scope and no parameter
\* map; what a client's scope and the statements of its evaluation hold
\* differs from the baseline only in names its own Set commands bind; and
\* the Workload's baseline mapping, which every client was handed, is never
\* modified.
C7_ClientsDoNotInteract ==
    /\ heap[workload.Variables] = BaselineVars
    /\ \A c \in Clients : pc[c] # "none" => client[c].Variables = workload.Variables
    /\ \A c \in Clients : workload.Variables \notin MapsOf(c)
    /\ \A c, d \in Clients : c # d => MapsOf(c) \cap MapsOf(d) = {}
    /\ \A c \in Clients : Chosen(c) =>
          /\ BaselineOutside(heap[ctx[c].Vars], SetNames(c, Len(Commands(c))))
          /\ \A j \in 1..Len(uow[c].Statements) :
                BaselineOutside(heap[uow[c].Statements[j].Params],
                                SetNames(c, Len(Commands(c))))

\* two clients are evaluating at once: one has rebound a variable, the
\* other runs a script without Set commands and still sees the baseline
C7_Witness ==
    \E c, d \in Clients :
        /\ c # d
        /\ pc[c] = "eval" /\ pc[d] = "eval"
        /\ heap[ctx[c].Vars] # BaselineVars
        /\ SetNames(d, Len(Commands(d))) = {}
        /\ Len(uow[d].Statements) > 0
        /\ heap[ctx[d].Vars] = BaselineVars

\* C8: a statement's parameters are the scope as it was when its Query
\* command executed, and no later step changes the parameters of a
\* statement that is in a UnitOfWork.
C8_ParamsAreSnapshot ==
    [][\A c \in Clients :
          /\ \A j \in 1..Len(uow[c].Statements) :
                (j <= Len(uow'[c].Statements)
                   /\ uow'[c].Statements[j] = uow[c].Statements[j]) =>
                      heap'[uow[c].Statements[j].Params] =
                         heap[uow[c].Statements[j].Params]
          /\ \A j \in 1..Len(last'[c].uow.Statements) :
                (last'[c] = last[c] \/ last'[c].uow = uow[c]) =>
                      heap'[last'[c].uow.Statements[j].Params] =
                         heap[last'[c].uow.Statements[j].Params]
          /\ Len(uow'[c].Statements) = Len(uow[c].Statements) + 1 =>
                heap'[uow'[c].Statements[Len(uow'[c].Statements)].Params] =
                   heap[ctx[c].Vars]]_vars

\* a Set command has changed the scope since a statement was recorded
C8_Witness ==
    \E c \in Clients :
        /\ pc[c] = "eval"
        /\ \E j \in 1..Len(uow[c].Statements) :
              /\ heap[uow[c].Statements[j].Params] # heap[ctx[c].Vars]
              /\ heap[uow[c].Statements[j].Params] = BaselineVars

--------------------------------------------------------------------------
(* The Sleep command: C9 and C10 *)

\* a client other than d is inside a Sleep command
OtherSleeps(d) == \E c \in Clients : c # d /\ pc[c] = "sleeping"

\* C9: while a client is inside a Sleep command, every other client that
\* exists can take its next step, and under fair scheduling it goes on
\* to complete its Next() call and to start another.
C9_SleepBlocksNobodyElse ==
    /\ [](\A c, d \in Clients :
             (c # d /\ pc[c] = "sleeping" /\ pc[d] # "none") => ENABLED Step(d))
    /\ \A d \in Clients :
          /\ (OtherSleeps(d) /\ pc[d] # "none") ~> (pc[d] = "idle" /\ last[d].returned)
          /\ (OtherSleeps(d) /\ pc[d] = "idle") ~> (pc[d] = "done")

\* one client sleeps while another, which has completed a Next() call, is
\* in the middle of its next evaluation
C9_Witness ==
    \E c, d \in Clients :
        /\ c # d
        /\ pc[c] = "sleeping"
        /\ pc[d] = "eval" /\ ip[d] > 1
        /\ last[d].returned

\* client c is about to execute a Sleep command
AtSleep(c) == pc[c] = "eval" /\ CommandAt(c).type = "sleep"

\* what the duration expression of the Sleep command client c is at yields
SleepValue(c) == ExprEval(CommandAt(c).Expression, heap[ctx[c].Vars], client[c].Rand)

\* C10: a Sleep command whose expression fails returns the evaluator's
\* error, and one whose expression yields a value that is not an integer
\* returns the type-mismatch error naming the value, both without a call of
\* time.Sleep; a Sleep command whose expression yields an integer suspends
\* the caller, and returns nil when the sleep ends.
C10_SleepOutcomes ==
    [][\A c \in Clients :
          /\ (AtSleep(c) /\ <<pc[c], ip[c], err[c]>>' # <<pc[c], ip[c], err[c]>>) =>
                LET v == SleepValue(c)
                IN IF v.err # NilErr
                   THEN /\ pc'[c] = "done" /\ err'[c] = v.err
                        /\ sleeps'[c] = sleeps[c]
                   ELSE IF v.value[1] # "int64"
                   THEN /\ pc'[c] = "done" /\ err'[c] = ErrSleepType(v.value)
                        /\ sleeps'[c] = sleeps[c]
                   ELSE /\ pc'[c] = "sleeping" /\ err'[c] = NilErr
                        /\ Len(sleeps'[c]) = Len(sleeps[c]) + 1
          /\ (pc[c] = "sleeping" /\ pc'[c] # "sleeping") =>
                /\ err'[c] = NilErr /\ ip'[c] = ip[c] + 1
                /\ sleeps'[c] = sleeps[c]
          /\ pc'[c] = "sleeping" => (pc[c] = "sleeping" \/ AtSleep(c))]_vars

\* a Sleep command has failed on a float without suspending its caller
C10_Witness ==
    \E c \in Clients :
        /\ pc[c] = "done"
        /\ err[c] = ErrSleepType(FloatV(3))
        /\ sleeps[c] = <<>>

--------------------------------------------------------------------------
(* Randomness sources: C11 and C12 *)

\* the step is one of client c's own goroutine: its position moves
OwnStep(c) == <<pc[c], ip[c]>>' # <<pc[c], ip[c]>>

\* the step is a call of NewClient that makes client c
Spawns(c) == pc[c] = "none" /\ pc'[c] # "none"

\* C11: the master generator is read and advanced by NewClient only, once
\* per call, and seeds the new client with the value drawn; a client's
\* generator is afterwards advanced only by steps of that client's own
\* Next(), whatever the other clients do in between.
C11_MasterOnlyInNewClient ==
    [][/\ workload'.Rand # workload.Rand => \E c \in Clients : Spawns(c)
       /\ \A c \in Clients :
             /\ Spawns(c) =>
                   /\ workload'.Rand = Int63(workload.Rand).rand
                   /\ client'[c].Rand = NewSource(Int63(workload.Rand).value)
             /\ (~Spawns(c) /\ client'[c].Rand # client[c].Rand) =>
                   /\ pc[c] \in {"idle", "eval"}
                   /\ OwnStep(c)
                   /\ \A d \in Clients \ {c} : ~OwnStep(d)
                   /\ workload'.Rand = workload.Rand]_vars

\* every client is spawned, and one of them has since drawn a point from
\* its own generator
C11_Witness ==
    /\ \A c \in Clients : pc[c] # "none"
    /\ \E c \in Clients :
          /\ Chosen(c) /\ choice[c].point > 0

\* client c is spawned and has not called Next() yet: its generator is in
\* the state its seed put it in
Fresh(c) == pc[c] = "idle" /\ ~last[c].returned

\* C12: no two clients spawned from one Workload carry the same seed, so
\* that their generators, which step alike, never yield the same stream.
C12_SeedsDiffer ==
    \A c, d \in Clients :
        (c # d /\ Fresh(c) /\ Fresh(d)) => client[c].Rand # client[d].Rand

--------------------------------------------------------------------------
(* Construction and immutability of the selector: C13 and C14 *)

\* weight[0] + ... + weight[i - 1] of the scripts, as numbers
RECURSIVE SumOfWeights(_, _)
SumOfWeights(scripts, i) ==
    IF i = 0 THEN 0 ELSE SumOfWeights(scripts, i - 1) + scripts[i].Weight

\* C13: the selector NewScripts returns keeps the scripts in the order
\* given, has one lookup entry per script, the i-th being the sum of the
\* weights of the scripts up to and including the i-th, its lookup entries
\* never decrease, and its total weight is the last entry, 0 without scripts.
C13_LookupIsPrefixSums ==
    LET s == workload.Scripts
        n == Len(s.Scripts)
    IN /\ s = NewScripts(s.Scripts)
       /\ Len(s.WeightedLookup) = n
       /\ \A i \in 1..n : s.WeightedLookup[i] = SumOfWeights(s.Scripts, i)
       /\ \A i \in 1..(n - 1) : s.WeightedLookup[i] <= s.WeightedLookup[i + 1]
       /\ s.TotalWeight = (IF n = 0 THEN 0 ELSE s.WeightedLookup[n])

\* C14: the selector and its scripts are never written after construction:
\* whatever Next() calls the clients interleave, the Workload's selector
\* stays as NewScripts returned it, and every client's selector (scripts
\* with their weights, readonly flags and commands, lookup table and total
\* weight) is the Workload's.
C14_SelectorImmutable ==
    [][/\ workload'.Scripts = workload.Scripts
       /\ workload'.Scripts = NewScripts(workload.Scripts.Scripts)
       /\ \A c \in Clients :
             pc'[c] # "none" => client'[c].Scripts = workload.Scripts]_vars

\* every client has returned from a Next() and one is evaluating again,
\* another client's Next() having returned the other script
C14_Witness ==
    /\ \A c \in Clients : last[c].returned
    /\ \E c, d \in Clients :
          /\ pc[c] = "eval" /\ ip[c] > 1
          /\ Len(client[d].Scripts.Scripts) > 1
          /\ Len(last[d].uow.Statements) # Len(uow[c].Statements)

--------------------------------------------------------------------------
(* The commands and the evaluation's result: C15 to C18 *)

\* the variable scope of client c's evaluation
Scope(c) == heap[ctx[c].Vars]

\* client c is about to execute a Set command
AtSet(c) == pc[c] = "eval" /\ CommandAt(c).type = "set"

\* client c is about to execute a Query command
AtQuery(c) == pc[c] = "eval" /\ CommandAt(c).type = "query"

\* what the expression of the Set command client c is at yields
SetValue(c) == ExprEval(CommandAt(c).Expression, Scope(c), client[c].Rand)

\* C15: a Set command whose expression yields a value binds its variable
\* to that value in the scope and returns nil; the scope then stays as it
\* is until the evaluation's next Set command, and it is what a Query
\* command snapshots; a Set command whose expression fails returns the
\* evaluator's error and leaves the scope as it was.
C15_SetBindsOrFails ==
    [][\A c \in Clients :
          /\ (AtSet(c) /\ OwnStep(c)) =>
                LET v == SetValue(c)
                IN /\ ctx'[c] = ctx[c]
                   /\ IF v.err = NilErr
                      THEN /\ heap'[ctx[c].Vars] =
                                 MapPut(Scope(c), CommandAt(c).VarName, v.value)
                           /\ err'[c] = NilErr
                           /\ <<pc[c], ip[c]>>' \in {<<"eval", ip[c] + 1>>, <<"done", ip[c] + 1>>}
                      ELSE /\ heap'[ctx[c].Vars] = Scope(c)
                           /\ err'[c] = v.err
                           /\ <<pc[c], ip[c]>>' = <<"done", ip[c]>>
          /\ (pc[c] \in {"eval", "sleeping"} /\ ~(AtSet(c) /\ OwnStep(c))) =>
                /\ ctx'[c] = ctx[c]
                /\ heap'[ctx[c].Vars] = Scope(c)
          /\ (AtQuery(c) /\ OwnStep(c)) =>
                /\ Len(uow'[c].Statements) = Len(uow[c].Statements) + 1
                /\ heap'[uow'[c].Statements[Len(uow'[c].Statements)].Params] = Scope(c)]_vars

\* the query after a Set command that rebound x has recorded the new value
\* of x, the query before it the old one
C15_Witness ==
    \E c \in Clients :
        /\ Chosen(c) /\ ip[c] >= 3
        /\ Commands(c)[2].type = "set" /\ Commands(c)[2].VarName = "x"
        /\ Len(uow[c].Statements) >= 2
        /\ heap[uow[c].Statements[1].Params]["x"] = IntV(1)
        /\ heap[uow[c].Statements[2].Params]["x"] = IntV(2)

\* the commands of its script client c's evaluation has gone through
\* without an error
Executed(c) == ip[c] - 1

\* C16: within one evaluation the commands run in script order, one at a
\* time and none twice; the statements are the query strings of the Query
\* commands executed so far, in the order they executed; and a step of the
\* evaluation leaves the statements as they are or appends one to them.
C16_StatementsInCommandOrder ==
    [][\A c \in Clients :
          /\ Chosen(c)' =>
                /\ ip'[c] \in 1..(Len(Commands(c)') + 1)
                /\ QueriesOf(uow'[c]) = QueriesBefore(Commands(c)', Executed(c)')
          /\ (Chosen(c) /\ Chosen(c)') =>
                /\ choice'[c] = choice[c]
                /\ ip'[c] \in {ip[c], ip[c] + 1}
                /\ \/ uow'[c] = uow[c]
                   \/ /\ AtQuery(c) /\ ip'[c] = ip[c] + 1
                      /\ Len(uow'[c].Statements) = Len(uow[c].Statements) + 1
                      /\ SubSeq(uow'[c].Statements, 1, Len(uow[c].Statements)) =
                            uow[c].Statements
                      /\ uow'[c].Statements[Len(uow'[c].Statements)].Query =
                            CommandAt(c).Query
                /\ (ip'[c] = ip[c] /\ pc'[c] # pc[c]) =>
                      \/ pc[c] = "eval" /\ pc'[c] = "sleeping"
                      \/ pc[c] = "eval" /\ pc'[c] = "done" /\ err'[c] # NilErr]_vars

\* an evaluation has recorded the three queries of its script in order,
\* with the Set commands between them executed
C16_Witness ==
    \E c \in Clients :
        /\ pc[c] = "done" /\ err[c] = NilErr
        /\ Len(Commands(c)) = 5
        /\ QueriesOf(uow[c]) = <<"qa", "qb", "qc">>

\* C17: the UnitOfWork of an evaluation carries the readonly flag of the
\* script being evaluated throughout, and Next() hands the driver exactly
\* the UnitOfWork and the error the evaluation ended with, whether that
\* error is nil or not.
C17_ResultCarriesReadonly ==
    [][\A c \in Clients :
          /\ Chosen(c)' => uow'[c].Readonly = ScriptOf(c)'.Readonly
          /\ (pc[c] = "done" /\ pc'[c] # "done") =>
                /\ last'[c] = [returned |-> TRUE, uow |-> uow[c], err |-> err[c]]
                /\ last'[c].uow.Readonly = ScriptOf(c).Readonly
                /\ \A j \in 1..Len(uow[c].Statements) :
                      heap'[uow[c].Statements[j].Params] =
                         heap[uow[c].Statements[j].Params]
          /\ (last'[c] # last[c]) => pc[c] = "done"]_vars

\* Next() has returned the partial result of a readonly script with the
\* error its third command failed with
C17_Witness ==
    \E c \in Clients :
        /\ last[c].returned
        /\ last[c].err = ErrUndefined
        /\ last[c].uow.Readonly
        /\ Len(last[c].uow.Statements) = 2

\* the bindings of a scope for the names other than n
Without(scope, n) == [k \in (DOMAIN scope) \ {n} |-> scope[k]]

\* C18: a Query command returns nil, appends exactly one statement and
\* leaves the scope as it was; a Set command leaves the statements as they
\* were and changes no binding but that of the variable it names; a Sleep
\* command, up to and across its sleep, leaves statements and scope as they
\* were.
C18_CommandsKeepToTheirPart ==
    [][\A c \in Clients :
          /\ (AtQuery(c) /\ OwnStep(c)) =>
                /\ err'[c] = NilErr /\ ip'[c] = ip[c] + 1
                /\ Len(uow'[c].Statements) = Len(uow[c].Statements) + 1
                /\ SubSeq(uow'[c].Statements, 1, Len(uow[c].Statements)) =
                      uow[c].Statements
                /\ uow'[c].Readonly = uow[c].Readonly
                /\ ctx'[c] = ctx[c] /\ heap'[ctx[c].Vars] = Scope(c)
          /\ (AtSet(c) /\ OwnStep(c)) =>
                /\ uow'[c] = uow[c]
                /\ ctx'[c] = ctx[c]
                /\ Without(heap'[ctx[c].Vars], CommandAt(c).VarName) =
                      Without(Scope(c), CommandAt(c).VarName)
          /\ ((AtSleep(c) \/ pc[c] = "sleeping") /\ OwnStep(c)) =>
                /\ uow'[c] = uow[c]
                /\ ctx'[c] = ctx[c] /\ heap'[ctx[c].Vars] = Scope(c)]_vars

\* an evaluation has bound a second variable next to the one it rebound,
\* with a query recorded before, between and after the two Set commands
C18_Witness ==
    \E c \in Clients :
        /\ Chosen(c)
        /\ Scope(c) = ("x" :> IntV(2)) @@ ("y" :> StringV(7))
        /\ Len(uow[c].Statements) = 3

--------------------------------------------------------------------------
(* Reproducibility: C19.  SpecTwins: clients 1 and 2 are made with the     *)
(* same seed, baseline and selector, any further client with a seed of     *)
(* its own; the driver calls Next() MaxKeep times on each client and keeps *)
(* what the calls return                                                   *)

\* selectors whose choice and whose evaluation draw from the generator
TwinScriptSets ==
    { <<SetScript(1), SleepScript(2)>>,
      <<RandomScript(1), FailScript(1)>> }

\* the seeds the clients are made with
TwinSeeds == {0, 1}

InitTwins ==
    \E scripts \in TwinScriptSets, seed \in [Clients -> TwinSeeds] :
        /\ seed[1] = seed[2]
        /\ workload = [Variables |-> BaselineRef, Scripts |-> NewScripts(scripts), Rand |-> 0]
        /\ heap = (BaselineRef :> BaselineVars)
        /\ client = [c \in Clients |->
                       [Variables |-> BaselineRef, Scripts |-> NewScripts(scripts),
                        Rand |-> NewSource(seed[c])]]
        /\ pc = [c \in Clients |-> "idle"]
        /\ choice = [c \in Clients |-> NoChoice]
        /\ ctx = [c \in Clients |-> NoCtx]
        /\ uow = [c \in Clients |-> NoUow]
        /\ ip = [c \in Clients |-> 0]
        /\ err = [c \in Clients |-> NilErr]
        /\ sleeps = [c \in Clients |-> <<>>]
        /\ last = [c \in Clients |-> NoResult]
        /\ out = [c \in Clients |-> [j \in 1..MaxKeep |-> NoEntry]]

\* the driver calls Next() on client c once more
DriverCalls(c) == FreeSlots(out[c]) # {} /\ NextBegin(c)

NextTwins ==
    \E c \in Clients :
        \/ DriverCalls(c)
        \/ ExecQuery(c)
        \/ ExecSet(c)
        \/ ExecSleep(c)
        \/ WakeUp(c)
        \/ NextReturn(c)

SpecTwins == InitTwins /\ [][NextTwins]_vars

\* C19: two clients made with the same seed, baseline variables and
\* selector return the same results, call by call: the k-th Next() of the
\* one chooses the script, and returns the UnitOfWork and the error, that
\* the k-th Next() of the other does, however the steps of the two and of
\* the other clients interleave.
C19_SameSeedSameResults ==
    \A k \in 1..MaxKeep :
        (out[1][k].filled /\ out[2][k].filled) => out[1][k] = out[2][k]

\* both twins have made all their calls, which did not all choose the same
\* script and which returned statements
C19_Witness ==
    /\ \A k \in 1..MaxKeep : out[1][k].filled /\ out[2][k].filled
    /\ \E j, k \in 1..MaxKeep : out[1][j].script # out[1][k].script
    /\ \E k \in 1..MaxKeep : Len(out[2][k].statements) > 0

====
